---- MODULE Spec2Model ----
(***************************************************************************)
(* Stock-movement core of the almoxarifado application.                    *)
(*                                                                         *)
(* The database holds two tables, produtos (one row per Produto) and       *)
(* movimentacoes (one row per Movimentacao, in insertion order).  Requests *)
(* run concurrently; each action below is one database statement of a     *)
(* request together with the local (in-memory) code that precedes it, so   *)
(* that every interleaving of database statements of concurrent requests   *)
(* is a behaviour of the model.                                            *)
(*                                                                         *)
(*   registrar_entrada / registrar_saida   views/movimentacao_views.py     *)
(*   chamada_direta                        a caller of                     *)
(*                                         Movimentacao.salvar_e_atualizar_estoque *)
(*                                         outside any transaction         *)
(*   salvar_e_atualizar_estoque            models.py 130-143 (compute and  *)
(*                                         self.produto.save())            *)
(*   movimentacao_save                     models.py 144 (self.save())     *)
(*   atomic_exit                           end of `with transaction.atomic()` *)
(*   cadastrar_produto / editar_produto /  views/produtos_views.py         *)
(*   deletar_produto / produto_save                                        *)
(*   excluir_instituicao                   views/instituicao_views.py      *)
(*   MovimentacaoAdmin_*, ProdutoAdmin_*   admin.py (the admin site)       *)
(*   criar_exemplos, seed_*                criar_exemplos.py               *)
(***************************************************************************)
EXTENDS Integers, Sequences, FiniteSets, TLC

\* ---- bounds of the model ------------------------------------------------
MaxInicial == 1      \* initial quantidade_atual of a product is in 0..MaxInicial
MaxQtd     == 2      \* requested quantities are in -1..MaxQtd
MaxOps     == 2      \* number of requests started in one behaviour
NumReqs    == 2      \* requests that may be in flight at the same time

Produtos == {"p1", "p2"}
Reqs     == 1..NumReqs
Nenhum   == "nenhum"

\* Movimentacao.TIPO_CHOICES
TIPO_CHOICES == {"entrada", "saida", "ajuste"}

\* ---- text of the POST fields and Python's int() ---------------------------
Digitos == <<"0", "1", "2", "3", "4", "5", "6", "7", "8", "9">>

RECURSIVE DigitosDe(_)
DigitosDe(n) ==
    IF n < 10 THEN <<Digitos[n + 1]>>
    ELSE DigitosDe(n \div 10) \o <<Digitos[(n % 10) + 1]>>

\* the decimal text a client types for the integer n
Texto(n) == IF n < 0 THEN <<"-">> \o DigitosDe(0 - n) ELSE DigitosDe(n)

EhDigito(c) == \E i \in 1..10 : Digitos[i] = c

ValorDigito(c) == (CHOOSE i \in 1..10 : Digitos[i] = c) - 1

RECURSIVE ValorDigitos(_)
ValorDigitos(s) ==
    IF s = <<>> THEN 0
    ELSE ValorDigitos(SubSeq(s, 1, Len(s) - 1)) * 10 + ValorDigito(s[Len(s)])

SoDigitos(s) == s # <<>> /\ \A i \in 1..Len(s) : EhDigito(s[i])

\* int(quantidade): the value, or ValueError (ok = FALSE)
int(s) ==
    IF SoDigitos(s) THEN [ok |-> TRUE, v |-> ValorDigitos(s)]
    ELSE IF s # <<>> /\ s[1] \in {"-", "+"} /\ SoDigitos(Tail(s))
         THEN [ok |-> TRUE,
               v  |-> IF s[1] = "-" THEN 0 - ValorDigitos(Tail(s))
                      ELSE ValorDigitos(Tail(s))]
         ELSE [ok |-> FALSE, v |-> 0]

\* values of the form fields a client may submit
CampoProduto    == Produtos \cup {"", "p9"}
CampoQuantidade == {<<>>, <<"a">>} \cup {Texto(n) : n \in (0 - 1)..MaxQtd}
CampoMotivo     == {"", "motivo"}
POSTs == [produto : CampoProduto, quantidade : CampoQuantidade, motivo : CampoMotivo]

VARIABLES
    produtos,        \* table Produto: pk -> row
    movimentacoes,   \* table Movimentacao: sequence of rows, id = index
    pc,              \* position of each request
    req,             \* what each request asks for
    mem,             \* the Produto object a request holds in memory
    tx,              \* writes of a request's open transaction, not yet committed
    res,             \* response of a finished request
    antes,           \* the two tables as they were when the request started
    persistido,      \* which of the two writes of a request's movement are persisted
    inicial,         \* quantidade_atual of every product in the initial state
    instituicoes,    \* table Instituicao: the set of primary keys
    sequencia,       \* next primary key of each table (AutoField)
    nops             \* number of requests started so far

vars == <<produtos, movimentacoes, pc, req, mem, tx, res, antes, persistido, inicial,
          instituicoes, sequencia, nops>>

\* an open transaction holds at most one pending row of each table
SemTx      == [produto |-> <<>>, mov |-> <<>>]
SemRes     == [tipo |-> Nenhum, erros |-> {}, val |-> Nenhum]
SemReq     == [via |-> Nenhum]
SemEscrita == [produto |-> FALSE, mov |-> FALSE]

\* ---- model fields --------------------------------------------------------
\* the column declared as a plain IntegerField: any value is stored
IntegerField(v) == TRUE

\* models.PositiveIntegerField: the column rejects a negative value
PositiveIntegerField(v) == v >= 0

\* the predicate with the boundary left out
esta_com_estoque_baixo_Estrito(linha) == linha.quantidade_atual < linha.quantidade_minima

\* Produto.esta_com_estoque_baixo
esta_com_estoque_baixo(linha) == linha.quantidade_atual <= linha.quantidade_minima

Instituicoes == {"i1", "i2"}

\* codigo and owning institution of the products of the initial state
CodigoInicial == [p \in Produtos |-> IF p = "p1" THEN "MED-001" ELSE "EQUIP-001"]

NovoProduto(p, q) ==
    [codigo |-> CodigoInicial[p], instituicao |-> "i1",
     quantidade_atual |-> q, quantidade_minima |-> 1, ativo |-> TRUE]

Init ==
    /\ \E f \in [Produtos -> 0..MaxInicial] :
          /\ produtos = [p \in Produtos |-> NovoProduto(p, f[p])]
          /\ inicial = f
    /\ instituicoes = Instituicoes
    /\ sequencia = [produto |-> Cardinality(Produtos) + 1, movimentacao |-> 1]
    /\ movimentacoes = <<>>
    /\ pc = [r \in Reqs |-> "idle"]
    /\ req = [r \in Reqs |-> SemReq]
    /\ mem = [r \in Reqs |-> Nenhum]
    /\ tx = [r \in Reqs |-> SemTx]
    /\ res = [r \in Reqs |-> SemRes]
    /\ antes = [r \in Reqs |-> Nenhum]
    /\ persistido = [r \in Reqs |-> SemEscrita]
    /\ nops = 0

\* ---- helpers --------------------------------------------------------------
Atomico(r) == req[r].via \in {"registrar_entrada", "registrar_saida"}

\* the row lock a transaction holds from its UPDATE until it ends
Bloqueado(p, r) ==
    \E o \in Reqs : o # r /\ tx[o].produto # <<>> /\ req[o].produto = p

Registro(r) == [produto |-> req[r].produto, tipo |-> req[r].tipo,
                quantidade |-> req[r].quantidade]

Tabelas == [produtos |-> produtos, movimentacoes |-> movimentacoes]

\* models.py 74: codigo = CharField(unique=True), over the whole table
unique(ps, codigo) == \A p \in DOMAIN ps : ps[p].codigo # codigo

\* models.py 87: unique_together = ['codigo', 'instituicao']
unique_together(ps, codigo, inst) ==
    \A p \in DOMAIN ps : ~(ps[p].codigo = codigo /\ ps[p].instituicao = inst)

\* Model.save() of a Produto object that carries a pk: an UPDATE of every
\* column, and an INSERT when the UPDATE finds no row with that pk
save(ps, pk, obj) ==
    IF pk \in DOMAIN ps THEN [ps EXCEPT ![pk] = obj] ELSE ps @@ (pk :> obj)

\* the constraints that INSERT has to meet: the institution exists and the
\* codigo is free
Inserivel(pk, obj) ==
    \/ pk \in DOMAIN produtos
    \/ obj.instituicao \in instituicoes /\ unique(produtos, obj.codigo)

\* the INSERT of a movement: the row receives the next id of the table
INSERT(reg) ==
    /\ movimentacoes' = Append(movimentacoes,
                               [id |-> sequencia.movimentacao, produto |-> reg.produto,
                                tipo |-> reg.tipo, quantidade |-> reg.quantidade])
    /\ sequencia' = [sequencia EXCEPT !.movimentacao = @ + 1]

\* the response that ends a request
Responde(r, tipo, erros, val) ==
    /\ pc' = [pc EXCEPT ![r] = "fim"]
    /\ res' = [res EXCEPT ![r] = [tipo |-> tipo, erros |-> erros, val |-> val]]

\* the validation that accepts a quantity of zero
Validacao_AceitaZero(post) ==
    LET n == int(post.quantidade) IN
    (IF post.produto = "" THEN {<<"produto", "obrigatorio">>} ELSE {})
    \cup (IF ~n.ok THEN {<<"quantidade", "numero">>}
          ELSE IF n.v < 0 THEN {<<"quantidade", "maior_que_zero">>} ELSE {})
    \cup (IF post.motivo = "" THEN {<<"motivo", "obrigatorio">>} ELSE {})

\* ---- validation of the two forms (views 89-102, 171-184) -----------------
Validacao(post) ==
    LET n == int(post.quantidade) IN
    (IF post.produto = "" THEN {<<"produto", "obrigatorio">>} ELSE {})
    \cup (IF ~n.ok THEN {<<"quantidade", "numero">>}
          ELSE IF n.v <= 0 THEN {<<"quantidade", "maior_que_zero">>} ELSE {})
    \cup (IF post.motivo = "" THEN {<<"motivo", "obrigatorio">>} ELSE {})

\* ---- registrar_entrada: validation and Produto.objects.get ----------------
registrar_entrada(r) ==
    /\ pc[r] = "idle"
    /\ nops < MaxOps
    /\ \E post \in POSTs :
          LET erros == Validacao(post) IN
          /\ req' = [req EXCEPT ![r] =
                        [via |-> "registrar_entrada", tipo |-> "entrada",
                         produto |-> post.produto,
                         quantidade |-> int(post.quantidade).v,
                         val |-> post]]
          /\ IF erros # {}
             THEN /\ Responde(r, "render", erros, post)
                  /\ UNCHANGED mem
             ELSE IF post.produto \notin DOMAIN produtos
             THEN /\ Responde(r, "render", {<<"produto", "nao_encontrado">>}, post)
                  /\ UNCHANGED mem
             ELSE /\ mem' = [mem EXCEPT ![r] = produtos[post.produto]]
                  /\ pc' = [pc EXCEPT ![r] = "salvar"]
                  /\ UNCHANGED res
    /\ antes' = [antes EXCEPT ![r] = Tabelas]
    /\ nops' = nops + 1
    /\ UNCHANGED <<produtos, movimentacoes, tx, persistido, inicial, instituicoes, sequencia>>

\* ---- registrar_saida: validation, Produto.objects.get, sufficiency check --
\* the sufficiency check with the boundary on the wrong side
EstoqueInsuficiente_Inclusivo(atual, quantidade) == atual <= quantidade

\* the view without its sufficiency check
EstoqueInsuficiente_Nunca(atual, quantidade) == FALSE

\* the sufficiency check that lets a withdrawal of one unit too many pass
EstoqueInsuficiente_Folga(atual, quantidade) == atual + 1 < quantidade

EstoqueInsuficiente(atual, quantidade) == atual < quantidade

registrar_saida(r) ==
    /\ pc[r] = "idle"
    /\ nops < MaxOps
    /\ \E post \in POSTs :
          LET erros == Validacao(post)
              q     == int(post.quantidade).v IN
          /\ req' = [req EXCEPT ![r] =
                        [via |-> "registrar_saida", tipo |-> "saida",
                         produto |-> post.produto, quantidade |-> q,
                         val |-> post]]
          /\ IF erros # {}
             THEN /\ Responde(r, "render", erros, post)
                  /\ UNCHANGED mem
             ELSE IF post.produto \notin DOMAIN produtos
             THEN /\ Responde(r, "render", {<<"produto", "nao_encontrado">>}, post)
                  /\ UNCHANGED mem
             ELSE IF EstoqueInsuficiente(produtos[post.produto].quantidade_atual, q)
             THEN /\ Responde(r, "render", {<<"quantidade", "insuficiente">>}, post)
                  /\ mem' = [mem EXCEPT ![r] = produtos[post.produto]]
             ELSE /\ mem' = [mem EXCEPT ![r] = produtos[post.produto]]
                  /\ pc' = [pc EXCEPT ![r] = "salvar"]
                  /\ UNCHANGED res
    /\ antes' = [antes EXCEPT ![r] = Tabelas]
    /\ nops' = nops + 1
    /\ UNCHANGED <<produtos, movimentacoes, tx, persistido, inicial, instituicoes, sequencia>>

\* ---- a caller that loads a product and applies a movement to it, with no --
\* ---- transaction around the call ------------------------------------------
chamada_direta(r) ==
    /\ pc[r] = "idle"
    /\ nops < MaxOps
    /\ \E p \in DOMAIN produtos, t \in TIPO_CHOICES, q \in (0 - 1)..MaxQtd :
          /\ req' = [req EXCEPT ![r] =
                        [via |-> "direta", tipo |-> t, produto |-> p,
                         quantidade |-> q, val |-> Nenhum]]
          /\ mem' = [mem EXCEPT ![r] = produtos[p]]
    /\ pc' = [pc EXCEPT ![r] = "salvar"]
    /\ antes' = [antes EXCEPT ![r] = Tabelas]
    /\ nops' = nops + 1
    /\ UNCHANGED <<produtos, movimentacoes, tx, res, persistido, inicial, instituicoes, sequencia>>

\* variants of AtualizaEstoque with one branch changed
AtualizaEstoque_EntradaSubtrai(tipo, atual, quantidade) ==
    IF tipo = "entrada" THEN [ok |-> TRUE, v |-> atual - quantidade]
    ELSE IF tipo = "saida"
         THEN IF atual >= quantidade
              THEN [ok |-> TRUE, v |-> atual - quantidade]
              ELSE [ok |-> FALSE, v |-> atual]
         ELSE IF tipo = "ajuste" THEN [ok |-> TRUE, v |-> quantidade]
              ELSE [ok |-> TRUE, v |-> atual]

AtualizaEstoque_SaidaSemCheque(tipo, atual, quantidade) ==
    IF tipo = "entrada" THEN [ok |-> TRUE, v |-> atual + quantidade]
    ELSE IF tipo = "saida" THEN [ok |-> TRUE, v |-> atual - quantidade]
         ELSE IF tipo = "ajuste" THEN [ok |-> TRUE, v |-> quantidade]
              ELSE [ok |-> TRUE, v |-> atual]

AtualizaEstoque_SaidaEstrita(tipo, atual, quantidade) ==
    IF tipo = "entrada" THEN [ok |-> TRUE, v |-> atual + quantidade]
    ELSE IF tipo = "saida"
         THEN IF atual > quantidade
              THEN [ok |-> TRUE, v |-> atual - quantidade]
              ELSE [ok |-> FALSE, v |-> atual]
         ELSE IF tipo = "ajuste" THEN [ok |-> TRUE, v |-> quantidade]
              ELSE [ok |-> TRUE, v |-> atual]

AtualizaEstoque_AjusteSoma(tipo, atual, quantidade) ==
    IF tipo = "entrada" THEN [ok |-> TRUE, v |-> atual + quantidade]
    ELSE IF tipo = "saida"
         THEN IF atual >= quantidade
              THEN [ok |-> TRUE, v |-> atual - quantidade]
              ELSE [ok |-> FALSE, v |-> atual]
         ELSE IF tipo = "ajuste" THEN [ok |-> TRUE, v |-> atual + quantidade]
              ELSE [ok |-> TRUE, v |-> atual]

\* ---- Movimentacao.salvar_e_atualizar_estoque, lines 130-140 ---------------
\* the new quantidade_atual of the product object, or ValueError (ok = FALSE)
AtualizaEstoque(tipo, atual, quantidade) ==
    IF tipo = "entrada" THEN [ok |-> TRUE, v |-> atual + quantidade]
    ELSE IF tipo = "saida"
         THEN IF atual >= quantidade
              THEN [ok |-> TRUE, v |-> atual - quantidade]
              ELSE [ok |-> FALSE, v |-> atual]
         ELSE IF tipo = "ajuste" THEN [ok |-> TRUE, v |-> quantidade]
              ELSE [ok |-> TRUE, v |-> atual]

\* lines 130-143: the computation and self.produto.save()
salvar_e_atualizar_estoque(r) ==
    /\ pc[r] = "salvar"
    /\ LET p    == req[r].produto
           novo == AtualizaEstoque(req[r].tipo, mem[r].quantidade_atual, req[r].quantidade)
           obj  == [mem[r] EXCEPT !.quantidade_atual = novo.v] IN
       IF ~novo.ok
       THEN \* raise ValueError: nothing was written, no handler catches it
            /\ Responde(r, "ValueError", {}, Nenhum)
            /\ UNCHANGED <<produtos, mem, tx, persistido>>
       ELSE /\ ~Bloqueado(p, r)
            /\ mem' = [mem EXCEPT ![r] = obj]
            /\ IF ~PositiveIntegerField(obj.quantidade_atual) \/ ~Inserivel(p, obj)
               THEN \* IntegrityError from the UPDATE (or the INSERT)
                    /\ Responde(r, "IntegrityError", {}, Nenhum)
                    /\ UNCHANGED <<produtos, tx, persistido>>
               ELSE IF Atomico(r)
               THEN /\ tx' = [tx EXCEPT ![r].produto = <<obj>>]
                    /\ pc' = [pc EXCEPT ![r] = "mov_save"]
                    /\ UNCHANGED <<produtos, res, persistido>>
               ELSE /\ produtos' = save(produtos, p, obj)
                    /\ persistido' = [persistido EXCEPT ![r].produto = TRUE]
                    /\ pc' = [pc EXCEPT ![r] = "mov_save"]
                    /\ UNCHANGED <<tx, res>>
    /\ UNCHANGED <<movimentacoes, req, antes, inicial, instituicoes, sequencia, nops>>

\* line 144: self.save(), the INSERT of the movement
movimentacao_save(r) ==
    /\ pc[r] = "mov_save"
    /\ IF \/ ~PositiveIntegerField(req[r].quantidade)
          \/ ~Atomico(r) /\ req[r].produto \notin DOMAIN produtos
       THEN \* IntegrityError from the INSERT; an open transaction rolls back
            /\ Responde(r, "IntegrityError", {}, Nenhum)
            /\ tx' = [tx EXCEPT ![r] = SemTx]
            /\ UNCHANGED <<movimentacoes, sequencia, persistido>>
       ELSE IF Atomico(r)
       THEN /\ tx' = [tx EXCEPT ![r].mov = <<Registro(r)>>]
            /\ pc' = [pc EXCEPT ![r] = "atomic_exit"]
            /\ UNCHANGED <<movimentacoes, sequencia, res, persistido>>
       ELSE /\ INSERT(Registro(r))
            /\ persistido' = [persistido EXCEPT ![r].mov = TRUE]
            /\ Responde(r, "retorno", {}, Nenhum)
            /\ UNCHANGED tx
    /\ UNCHANGED <<produtos, req, mem, antes, inicial, instituicoes, nops>>

\* end of `with transaction.atomic()`: commit, then messages.success and redirect
atomic_exit(r) ==
    /\ pc[r] = "atomic_exit"
    /\ produtos' = save(produtos, req[r].produto, tx[r].produto[1])
    /\ INSERT(tx[r].mov[1])
    /\ persistido' = [persistido EXCEPT ![r] = [produto |-> TRUE, mov |-> TRUE]]
    /\ tx' = [tx EXCEPT ![r] = SemTx]
    /\ Responde(r, "redirect", {}, Nenhum)
    /\ UNCHANGED <<req, mem, antes, inicial, instituicoes, nops>>

\* the process or the connection fails after self.produto.save() and before
\* the movement is committed; an open transaction is rolled back
Falha(r) ==
    /\ pc[r] \in {"mov_save", "atomic_exit"}
    /\ tx' = [tx EXCEPT ![r] = SemTx]
    /\ Responde(r, "falha", {}, Nenhum)
    /\ UNCHANGED <<produtos, movimentacoes, req, mem, antes, persistido, inicial, instituicoes, sequencia, nops>>

\* the response is delivered and the request's objects are dropped
Retorna(r) ==
    /\ pc[r] = "fim"
    /\ pc' = [pc EXCEPT ![r] = "idle"]
    /\ req' = [req EXCEPT ![r] = SemReq]
    /\ mem' = [mem EXCEPT ![r] = Nenhum]
    /\ res' = [res EXCEPT ![r] = SemRes]
    /\ antes' = [antes EXCEPT ![r] = Nenhum]
    /\ persistido' = [persistido EXCEPT ![r] = SemEscrita]
    /\ UNCHANGED <<produtos, movimentacoes, tx, inicial, instituicoes, sequencia, nops>>

\* ---- unauthenticated request to a view decorated with login_required ------
VistasProtegidas == {"registrar_entrada", "registrar_saida", "cadastrar_produto",
                     "editar_produto", "deletar_produto"}

\* the decorator answers with a redirect to the login page; the view never runs
login_required(r) ==
    /\ pc[r] = "idle"
    /\ nops < MaxOps
    /\ \E v \in VistasProtegidas, m \in {"GET", "POST"} :
          req' = [req EXCEPT ![r] = [via |-> "login_required", vista |-> v,
                                     metodo |-> m, autenticado |-> FALSE]]
    /\ Responde(r, "redirect_login", {}, Nenhum)
    /\ antes' = [antes EXCEPT ![r] = Tabelas]
    /\ nops' = nops + 1
    /\ UNCHANGED <<produtos, movimentacoes, mem, tx, persistido, inicial, instituicoes,
                   sequencia>>

\* ---- Produto: keys, constraints, form fields ------------------------------
\* primary keys of Produto in the order the database hands them out
ChavesProduto == <<"p1", "p2", "p3", "p4", "p5", "p6", "p7", "p8">>

CampoCodigo      == {"", "MED-001", "MED-002"}
CampoNome        == {"", "nome"}
CampoInstituicao == Instituicoes \cup {"", "i9"}
CampoPreco       == {<<"1", ".", "5">>, <<"a">>}
POSTsProduto == [codigo : CampoCodigo, nome : CampoNome, instituicao : CampoInstituicao,
                 quantidade_minima : CampoQuantidade, preco_unitario : CampoPreco]
POSTsEdicao  == [nome : CampoNome, quantidade_minima : CampoQuantidade,
                 preco_unitario : CampoPreco]

\* float(s) of a decimal text: digits with at most one point
float(s) ==
    LET naoPonto(c) == c # "."
        semPonto    == SelectSeq(s, naoPonto) IN
    [ok |-> Len(s) - Len(semPonto) <= 1 /\ int(semPonto).ok]

\* produtos_views.py 98-115
ValidacaoProduto(post) ==
    (IF post.codigo = "" THEN {<<"codigo", "obrigatorio">>} ELSE {})
    \cup (IF post.nome = "" THEN {<<"nome", "obrigatorio">>} ELSE {})
    \cup (IF post.instituicao = "" THEN {<<"instituicao", "obrigatoria">>} ELSE {})
    \cup (IF ~int(post.quantidade_minima).ok
          THEN {<<"quantidade_minima", "numero">>} ELSE {})
    \cup (IF ~float(post.preco_unitario).ok
          THEN {<<"preco_unitario", "numero">>} ELSE {})

\* produtos_views.py 174-185
ValidacaoEdicao(post) ==
    (IF post.nome = "" THEN {<<"nome", "obrigatorio">>} ELSE {})
    \cup (IF ~int(post.quantidade_minima).ok
          THEN {<<"quantidade_minima", "numero">>} ELSE {})
    \cup (IF ~float(post.preco_unitario).ok
          THEN {<<"preco_unitario", "numero">>} ELSE {})

\* the row Produto.objects.create inserts; quantidade_atual and ativo take
\* their defaults
Produto_create(codigo, inst, minima) ==
    [codigo |-> codigo, instituicao |-> inst, quantidade_atual |-> 0,
     quantidade_minima |-> minima, ativo |-> TRUE]

\* ---- cadastrar_produto (authenticated) ------------------------------------
cadastrar_produto(r) ==
    /\ pc[r] = "idle"
    /\ nops < MaxOps
    /\ sequencia.produto <= Len(ChavesProduto)
    /\ \E post \in POSTsProduto :
          LET erros  == ValidacaoProduto(post)
              minima == int(post.quantidade_minima).v
              pk     == ChavesProduto[sequencia.produto] IN
          /\ req' = [req EXCEPT ![r] = [via |-> "cadastrar_produto", val |-> post]]
          /\ IF erros # {}
             THEN /\ Responde(r, "render", erros, post)
                  /\ UNCHANGED <<produtos, sequencia>>
             ELSE IF post.instituicao \notin instituicoes
             THEN \* Instituicao.DoesNotExist is not a Produto.DoesNotExist
                  /\ Responde(r, "DoesNotExist", {}, Nenhum)
                  /\ UNCHANGED <<produtos, sequencia>>
             ELSE IF \/ ~unique(produtos, post.codigo)
                     \/ ~unique_together(produtos, post.codigo, post.instituicao)
                     \/ ~PositiveIntegerField(minima)
             THEN \* the INSERT raises IntegrityError, which no handler catches
                  /\ Responde(r, "IntegrityError", {}, Nenhum)
                  /\ UNCHANGED <<produtos, sequencia>>
             ELSE /\ produtos' = produtos @@
                        (pk :> Produto_create(post.codigo, post.instituicao, minima))
                  /\ sequencia' = [sequencia EXCEPT !.produto = @ + 1]
                  /\ Responde(r, "redirect", {}, Nenhum)
    /\ antes' = [antes EXCEPT ![r] = Tabelas]
    /\ nops' = nops + 1
    /\ UNCHANGED <<movimentacoes, mem, tx, persistido, inicial, instituicoes>>

\* ---- editar_produto (authenticated): get_object_or_404 and the form -------
editar_produto(r) ==
    /\ pc[r] = "idle"
    /\ nops < MaxOps
    /\ \E p \in DOMAIN produtos \cup {"p9"}, m \in {"GET", "POST"}, post \in POSTsEdicao :
          LET erros == ValidacaoEdicao(post) IN
          /\ req' = [req EXCEPT ![r] = [via |-> "editar_produto", produto |-> p,
                                        metodo |-> m, val |-> post]]
          /\ IF p \notin DOMAIN produtos
             THEN /\ Responde(r, "Http404", {}, Nenhum)
                  /\ UNCHANGED mem
             ELSE IF m = "GET"
             THEN /\ Responde(r, "render", {}, Nenhum)
                  /\ mem' = [mem EXCEPT ![r] = produtos[p]]
             ELSE IF erros # {}
             THEN /\ Responde(r, "render", erros, post)
                  /\ mem' = [mem EXCEPT ![r] = produtos[p]]
             ELSE /\ mem' = [mem EXCEPT ![r] =
                               [produtos[p] EXCEPT
                                   !.quantidade_minima = int(post.quantidade_minima).v]]
                  /\ pc' = [pc EXCEPT ![r] = "produto_save"]
                  /\ UNCHANGED res
    /\ antes' = [antes EXCEPT ![r] = Tabelas]
    /\ nops' = nops + 1
    /\ UNCHANGED <<produtos, movimentacoes, tx, persistido, inicial, instituicoes,
                   sequencia>>

\* ---- deletar_produto (authenticated): get_object_or_404, ativo = False ----
\* the removal that also empties the stock of the product
Desativa_ZeraEstoque(linha) == [linha EXCEPT !.ativo = FALSE, !.quantidade_atual = 0]

Desativa(linha) == [linha EXCEPT !.ativo = FALSE]

deletar_produto(r) ==
    /\ pc[r] = "idle"
    /\ nops < MaxOps
    /\ \E p \in DOMAIN produtos \cup {"p9"}, m \in {"GET", "POST"} :
          /\ req' = [req EXCEPT ![r] = [via |-> "deletar_produto", produto |-> p,
                                        metodo |-> m]]
          /\ IF p \notin DOMAIN produtos
             THEN /\ Responde(r, "Http404", {}, Nenhum)
                  /\ UNCHANGED mem
             ELSE IF m = "GET"
             THEN /\ Responde(r, "render", {}, Nenhum)
                  /\ mem' = [mem EXCEPT ![r] = produtos[p]]
             ELSE /\ mem' = [mem EXCEPT ![r] = Desativa(produtos[p])]
                  /\ pc' = [pc EXCEPT ![r] = "produto_save"]
                  /\ UNCHANGED res
    /\ antes' = [antes EXCEPT ![r] = Tabelas]
    /\ nops' = nops + 1
    /\ UNCHANGED <<produtos, movimentacoes, tx, persistido, inicial, instituicoes,
                   sequencia>>

\* produto.save() of editar_produto and deletar_produto: the UPDATE writes
\* every column of the object in memory
produto_save(r) ==
    /\ pc[r] = "produto_save"
    /\ ~Bloqueado(req[r].produto, r)
    /\ IF \/ ~PositiveIntegerField(mem[r].quantidade_minima)
          \/ ~Inserivel(req[r].produto, mem[r])
       THEN /\ Responde(r, "IntegrityError", {}, Nenhum)
            /\ UNCHANGED produtos
       ELSE /\ produtos' = save(produtos, req[r].produto, mem[r])
            /\ Responde(r, "redirect", {}, Nenhum)
    /\ UNCHANGED <<movimentacoes, req, mem, tx, antes, persistido, inicial, instituicoes,
                   sequencia, nops>>

\* ---- on_delete of the foreign keys ----------------------------------------
\* on_delete=models.CASCADE: the rows whose parent is deleted go with it
CASCADE(linhas, restantes) ==
    LET fica(m) == m.produto \in restantes IN SelectSeq(linhas, fica)

\* ---- excluir_instituicao: no login_required on this view ------------------
excluir_instituicao(r) ==
    /\ pc[r] = "idle"
    /\ nops < MaxOps
    /\ \E pk \in Instituicoes \cup {"i9"}, m \in {"GET", "POST"}, a \in BOOLEAN :
          LET restantes == {p \in DOMAIN produtos : produtos[p].instituicao # pk} IN
          /\ req' = [req EXCEPT ![r] = [via |-> "excluir_instituicao", pk |-> pk,
                                        metodo |-> m, autenticado |-> a]]
          /\ IF pk \notin instituicoes
             THEN /\ Responde(r, "Http404", {}, Nenhum)
                  /\ UNCHANGED <<produtos, movimentacoes, instituicoes>>
             ELSE IF m = "POST"
             THEN \* the DELETE waits for the open transactions that wrote a
                  \* product of the institution
                  /\ \A o \in Reqs \ {r} :
                        ~(tx[o].produto # <<>> /\ tx[o].produto[1].instituicao = pk)
                  /\ instituicoes' = instituicoes \ {pk}
                  /\ produtos' = [p \in restantes |-> produtos[p]]
                  /\ movimentacoes' = CASCADE(movimentacoes, restantes)
                  /\ Responde(r, "redirect", {}, Nenhum)
             ELSE /\ Responde(r, "redirect", {}, Nenhum)
                  /\ UNCHANGED <<produtos, movimentacoes, instituicoes>>
    /\ antes' = [antes EXCEPT ![r] = Tabelas]
    /\ nops' = nops + 1
    /\ UNCHANGED <<mem, tx, persistido, inicial, sequencia>>

\* ---- the low-stock listings of dashboard_views.py (authenticated) ---------
\* the query with the boundary left out (quantidade_atual__lt)
filter_estoque_baixo_Estrito(ps) ==
    {p \in DOMAIN ps : ps[p].ativo /\ ps[p].quantidade_atual < ps[p].quantidade_minima}

\* Produto.objects.filter(ativo=True, quantidade_atual__lte=F('quantidade_minima'))
filter_estoque_baixo(ps) ==
    {p \in DOMAIN ps : ps[p].ativo /\ ps[p].quantidade_atual <= ps[p].quantidade_minima}

\* the view produtos_estoque_baixo: the products of the query
produtos_estoque_baixo(r) ==
    /\ pc[r] = "idle"
    /\ nops < MaxOps
    /\ req' = [req EXCEPT ![r] = [via |-> "produtos_estoque_baixo"]]
    /\ Responde(r, "render", {}, filter_estoque_baixo(produtos))
    /\ antes' = [antes EXCEPT ![r] = Tabelas]
    /\ nops' = nops + 1
    /\ UNCHANGED <<produtos, movimentacoes, mem, tx, persistido, inicial, instituicoes,
                   sequencia>>

\* the view dashboard: the count of the same query
dashboard(r) ==
    /\ pc[r] = "idle"
    /\ nops < MaxOps
    /\ req' = [req EXCEPT ![r] = [via |-> "dashboard"]]
    /\ Responde(r, "render", {}, Cardinality(filter_estoque_baixo(produtos)))
    /\ antes' = [antes EXCEPT ![r] = Tabelas]
    /\ nops' = nops + 1
    /\ UNCHANGED <<produtos, movimentacoes, mem, tx, persistido, inicial, instituicoes,
                   sequencia>>

\* ---- the admin site (staff session): admin.py 41-68 -----------------------
\* change form of MovimentacaoAdmin: only data_movimentacao is read-only
MovimentacaoAdmin_change(r) ==
    /\ pc[r] = "idle"
    /\ nops < MaxOps
    /\ \E i \in 1..Len(movimentacoes), p \in DOMAIN produtos, t \in TIPO_CHOICES,
          q \in 0..MaxQtd :
          /\ req' = [req EXCEPT ![r] = [via |-> "admin", id |-> movimentacoes[i].id]]
          /\ movimentacoes' = [movimentacoes EXCEPT ![i] =
                                  [id |-> @.id, produto |-> p, tipo |-> t,
                                   quantidade |-> q]]
    /\ Responde(r, "redirect", {}, Nenhum)
    /\ antes' = [antes EXCEPT ![r] = Tabelas]
    /\ nops' = nops + 1
    /\ UNCHANGED <<produtos, mem, tx, persistido, inicial, instituicoes, sequencia>>

\* delete view of MovimentacaoAdmin
MovimentacaoAdmin_delete(r) ==
    /\ pc[r] = "idle"
    /\ nops < MaxOps
    /\ \E i \in 1..Len(movimentacoes) :
          LET outra(m) == m.id # movimentacoes[i].id IN
          /\ req' = [req EXCEPT ![r] = [via |-> "admin", id |-> movimentacoes[i].id]]
          /\ movimentacoes' = SelectSeq(movimentacoes, outra)
    /\ Responde(r, "redirect", {}, Nenhum)
    /\ antes' = [antes EXCEPT ![r] = Tabelas]
    /\ nops' = nops + 1
    /\ UNCHANGED <<produtos, mem, tx, persistido, inicial, instituicoes, sequencia>>

\* delete view of ProdutoAdmin: the product goes, and its movements with it
ProdutoAdmin_delete(r) ==
    /\ pc[r] = "idle"
    /\ nops < MaxOps
    /\ \E p \in DOMAIN produtos :
          LET restantes == DOMAIN produtos \ {p} IN
          /\ ~Bloqueado(p, r)
          /\ req' = [req EXCEPT ![r] = [via |-> "admin", produto |-> p]]
          /\ produtos' = [o \in restantes |-> produtos[o]]
          /\ movimentacoes' = CASCADE(movimentacoes, restantes)
    /\ Responde(r, "redirect", {}, Nenhum)
    /\ antes' = [antes EXCEPT ![r] = Tabelas]
    /\ nops' = nops + 1
    /\ UNCHANGED <<mem, tx, persistido, inicial, instituicoes, sequencia>>

\* ---- criar_exemplos.py: the seed script -----------------------------------
\* get_or_create arguments of prod1..prod4 (lines 103-161)
SeedProdutos ==
    << [codigo |-> "MED-001",   instituicao |-> "i1", quantidade_minima |-> 50,
        quantidade_atual |-> 200],
       [codigo |-> "EQUIP-001", instituicao |-> "i1", quantidade_minima |-> 10,
        quantidade_atual |-> 45],
       [codigo |-> "MED-002",   instituicao |-> "i2", quantidade_minima |-> 100,
        quantidade_atual |-> 150],
       [codigo |-> "EQUIP-002", instituicao |-> "i2", quantidade_minima |-> 5,
        quantidade_atual |-> 8] >>

\* mov1 (lines 166-177), and mov2, mov3 (lines 183-214): which product object,
\* the movement, and the stage that follows
SeedMov1 == [obj |-> 1, tipo |-> "entrada", quantidade |-> 100]

SeedMovs ==
    [seed_mov2 |-> [obj |-> 2, tipo |-> "saida", quantidade |-> 5,
                    delta |-> 0 - 5, depois |-> "seed_mov3"],
     seed_mov3 |-> [obj |-> 3, tipo |-> "entrada", quantidade |-> 50,
                    delta |-> 50, depois |-> "fim"]]

RECURSIVE get_or_create(_, _, _, _)
\* Produto.objects.get_or_create of SeedProdutos[k..4], one after the other:
\* the table, the next key and the pks of the objects obtained; ok = FALSE
\* when a create raises IntegrityError, which ends the script
get_or_create(k, ps, prox, objs) ==
    IF k > Len(SeedProdutos)
    THEN [ok |-> TRUE, produtos |-> ps, proximo |-> prox, objs |-> objs]
    ELSE LET d == SeedProdutos[k]
             achados == {p \in DOMAIN ps : /\ ps[p].codigo = d.codigo
                                          /\ ps[p].instituicao = d.instituicao} IN
         IF achados # {}
         THEN get_or_create(k + 1, ps, prox, Append(objs, CHOOSE p \in achados : TRUE))
         ELSE IF ~unique(ps, d.codigo)
         THEN [ok |-> FALSE, produtos |-> ps, proximo |-> prox, objs |-> objs]
         ELSE get_or_create(k + 1,
                            ps @@ (ChavesProduto[prox] :>
                                     [codigo |-> d.codigo, instituicao |-> d.instituicao,
                                      quantidade_atual |-> d.quantidade_atual,
                                      quantidade_minima |-> d.quantidade_minima,
                                      ativo |-> TRUE]),
                            prox + 1, Append(objs, ChavesProduto[prox]))

\* lines 23-161: institutions and products, each by get_or_create
criar_exemplos(r) ==
    /\ pc[r] = "idle"
    /\ nops < MaxOps
    /\ sequencia.produto + Len(SeedProdutos) - 1 <= Len(ChavesProduto)
    /\ LET g == get_or_create(1, produtos, sequencia.produto, <<>>) IN
       /\ instituicoes' = instituicoes \cup Instituicoes
       /\ produtos' = g.produtos
       /\ sequencia' = [sequencia EXCEPT !.produto = g.proximo]
       /\ IF g.ok
          THEN /\ mem' = [mem EXCEPT ![r] =
                             [objs |-> g.objs,
                              linhas |-> [k \in 1..Len(g.objs) |-> g.produtos[g.objs[k]]]]]
               /\ pc' = [pc EXCEPT ![r] = "seed_mov1"]
               /\ UNCHANGED res
          ELSE /\ Responde(r, "IntegrityError", {}, Nenhum)
               /\ UNCHANGED mem
    /\ req' = [req EXCEPT ![r] = [via |-> "criar_exemplos"]]
    /\ antes' = [antes EXCEPT ![r] = Tabelas]
    /\ nops' = nops + 1
    /\ UNCHANGED <<movimentacoes, tx, persistido, inicial>>

\* lines 166-177: mov1 is created with id 1 unless a movement with id 1 exists;
\* the quantity of prod1 is not touched
seed_mov1(r) ==
    /\ pc[r] = "seed_mov1"
    /\ IF \E i \in 1..Len(movimentacoes) : movimentacoes[i].id = 1
       THEN UNCHANGED <<movimentacoes, sequencia, persistido>>
       ELSE /\ movimentacoes' = Append(movimentacoes,
                                       [id |-> 1, produto |-> mem[r].objs[SeedMov1.obj],
                                        tipo |-> SeedMov1.tipo,
                                        quantidade |-> SeedMov1.quantidade])
            /\ sequencia' = [sequencia EXCEPT
                                !.movimentacao = IF @ > 1 THEN @ ELSE 2]
            /\ persistido' = [persistido EXCEPT ![r] = [produto |-> FALSE, mov |-> TRUE]]
    /\ pc' = [pc EXCEPT ![r] = "seed_mov2"]
    /\ UNCHANGED <<produtos, req, mem, tx, res, antes, inicial, instituicoes, nops>>

\* lines 192-193 and 209-210: prod.quantidade_atual -= 5 (or += 50) and
\* prod.save(); an IntegrityError is swallowed by the bare except
seed_produto_save(r) ==
    /\ pc[r] \in DOMAIN SeedMovs
    /\ LET d    == SeedMovs[pc[r]]
           novo == [mem[r].linhas[d.obj] EXCEPT !.quantidade_atual = @ + d.delta] IN
       /\ mem' = [mem EXCEPT ![r].linhas[d.obj] = novo]
       /\ IF \/ ~PositiveIntegerField(novo.quantidade_atual)
             \/ ~Inserivel(mem[r].objs[d.obj], novo)
          THEN /\ UNCHANGED <<produtos, persistido>>
               /\ IF d.depois = "fim"
                  THEN Responde(r, "retorno", {}, Nenhum)
                  ELSE pc' = [pc EXCEPT ![r] = d.depois] /\ UNCHANGED res
          ELSE /\ produtos' = save(produtos, mem[r].objs[d.obj], novo)
               /\ persistido' = [persistido EXCEPT
                                    ![r] = [produto |-> TRUE, mov |-> FALSE]]
               /\ pc' = [pc EXCEPT ![r] = IF pc[r] = "seed_mov2" THEN "seed_mov2_save"
                                          ELSE "seed_mov3_save"]
               /\ UNCHANGED res
    /\ UNCHANGED <<movimentacoes, req, tx, antes, inicial, instituicoes, sequencia, nops>>

\* lines 194 and 211: mov.save()
seed_mov_save(r) ==
    /\ pc[r] \in {"seed_mov2_save", "seed_mov3_save"}
    /\ LET d == IF pc[r] = "seed_mov2_save" THEN SeedMovs.seed_mov2
                ELSE SeedMovs.seed_mov3 IN
       /\ INSERT([produto |-> mem[r].objs[d.obj], tipo |-> d.tipo,
                  quantidade |-> d.quantidade])
       /\ persistido' = [persistido EXCEPT ![r].mov = TRUE]
       /\ IF d.depois = "fim"
          THEN Responde(r, "retorno", {}, Nenhum)
          ELSE pc' = [pc EXCEPT ![r] = d.depois] /\ UNCHANGED res
    /\ UNCHANGED <<produtos, req, mem, tx, antes, inicial, instituicoes, nops>>

\* ---- specifications -------------------------------------------------------
Next ==
    \E r \in Reqs :
        \/ registrar_entrada(r)
        \/ registrar_saida(r)
        \/ chamada_direta(r)
        \/ salvar_e_atualizar_estoque(r)
        \/ movimentacao_save(r)
        \/ atomic_exit(r)
        \/ Falha(r)
        \/ Retorna(r)

Spec == Init /\ [][Next]_vars

\* only the two views, running concurrently
NextViews ==
    \E r \in Reqs :
        \/ registrar_entrada(r)
        \/ registrar_saida(r)
        \/ salvar_e_atualizar_estoque(r)
        \/ movimentacao_save(r)
        \/ atomic_exit(r)
        \/ Falha(r)
        \/ Retorna(r)

SpecViews == Init /\ [][NextViews]_vars

\* one request at a time: a request starts only when no other is in flight
Ocioso == \A r \in Reqs : pc[r] = "idle"

entrada_serial(r) == Ocioso /\ registrar_entrada(r)

saida_serial(r) == Ocioso /\ registrar_saida(r)

direta_serial(r) == Ocioso /\ chamada_direta(r)

NextSerial ==
    \E r \in Reqs :
        \/ entrada_serial(r)
        \/ saida_serial(r)
        \/ direta_serial(r)
        \/ salvar_e_atualizar_estoque(r)
        \/ movimentacao_save(r)
        \/ atomic_exit(r)
        \/ Falha(r)
        \/ Retorna(r)

SpecSerial == Init /\ [][NextSerial]_vars

\* the whole application, one request at a time: the views, the admin site,
\* a direct caller and the seed script
NextApp ==
    \E r \in Reqs :
        \/ entrada_serial(r)
        \/ saida_serial(r)
        \/ direta_serial(r)
        \/ Ocioso /\ login_required(r)
        \/ Ocioso /\ cadastrar_produto(r)
        \/ Ocioso /\ editar_produto(r)
        \/ Ocioso /\ deletar_produto(r)
        \/ Ocioso /\ excluir_instituicao(r)
        \/ Ocioso /\ MovimentacaoAdmin_change(r)
        \/ Ocioso /\ MovimentacaoAdmin_delete(r)
        \/ Ocioso /\ ProdutoAdmin_delete(r)
        \/ Ocioso /\ criar_exemplos(r)
        \/ Ocioso /\ produtos_estoque_baixo(r)
        \/ Ocioso /\ dashboard(r)
        \/ produto_save(r)
        \/ seed_mov1(r)
        \/ seed_produto_save(r)
        \/ seed_mov_save(r)
        \/ salvar_e_atualizar_estoque(r)
        \/ movimentacao_save(r)
        \/ atomic_exit(r)
        \/ Falha(r)
        \/ Retorna(r)

SpecApp == Init /\ [][NextApp]_vars

\* the two views running concurrently with the deletion of a product (admin
\* site) or of an institution
NextExclusao ==
    \E r \in Reqs :
        \/ registrar_entrada(r)
        \/ registrar_saida(r)
        \/ ProdutoAdmin_delete(r)
        \/ excluir_instituicao(r)
        \/ salvar_e_atualizar_estoque(r)
        \/ movimentacao_save(r)
        \/ atomic_exit(r)
        \/ Falha(r)
        \/ Retorna(r)

SpecExclusao == Init /\ [][NextExclusao]_vars

\* the two movement views running concurrently with editar_produto and
\* deletar_produto
NextEdicao ==
    \E r \in Reqs :
        \/ registrar_entrada(r)
        \/ registrar_saida(r)
        \/ editar_produto(r)
        \/ deletar_produto(r)
        \/ produto_save(r)
        \/ salvar_e_atualizar_estoque(r)
        \/ movimentacao_save(r)
        \/ atomic_exit(r)
        \/ Falha(r)
        \/ Retorna(r)

SpecEdicao == Init /\ [][NextEdicao]_vars

\* ---- vocabulary of the properties -----------------------------------------
RECURSIVE Soma(_, _, _)
\* total quantidade of the movements of kind t recorded for product p in ms
Soma(ms, p, t) ==
    IF ms = <<>> THEN 0
    ELSE (IF Head(ms).produto = p /\ Head(ms).tipo = t THEN Head(ms).quantidade ELSE 0)
         + Soma(Tail(ms), p, t)

\* the movement rows without their primary key
Colunas(ms) ==
    [i \in 1..Len(ms) |-> [produto |-> ms[i].produto, tipo |-> ms[i].tipo,
                            quantidade |-> ms[i].quantidade]]

Terminou(r) == pc[r] = "fim"

Sucesso(r) == Terminou(r) /\ res[r].tipo \in {"redirect", "retorno"}

\* the request passes form validation and names an existing product
Valida(r) ==
    \/ req[r].via = "direta"
    \/ /\ req[r].via \in {"registrar_entrada", "registrar_saida"}
       /\ req[r].val.produto \in DOMAIN antes[r].produtos
       /\ req[r].val.motivo # ""
       /\ int(req[r].val.quantidade).ok
       /\ req[r].quantidade > 0

\* quantity of the request's product when the request started
QtdAntes(r) == antes[r].produtos[req[r].produto].quantidade_atual

QtdAgora(r) == produtos[req[r].produto].quantidade_atual

\* ---- C1 -------------------------------------------------------------------
\* C1: in every reachable state, whatever receipts, withdrawals and adjustments
\* were applied through salvar_e_atualizar_estoque and the two views, and
\* however the requests interleaved, every product's persisted
\* quantidade_atual is >= 0.
C1_EstoqueNuncaNegativo ==
    \A p \in Produtos : produtos[p].quantidade_atual >= 0

\* two withdrawals of the same product, started from the same stock, both
\* committed although together they ask for more than was there
C1_Witness ==
    \E a \in Reqs, b \in Reqs :
        /\ a # b
        /\ Sucesso(a) /\ Sucesso(b)
        /\ req[a].tipo = "saida" /\ req[b].tipo = "saida"
        /\ req[a].produto = req[b].produto
        /\ QtdAntes(a) = QtdAntes(b)
        /\ req[a].quantidade + req[b].quantidade > QtdAntes(a)

\* ---- C2 -------------------------------------------------------------------
\* C2: concurrent withdrawals cannot both pass the sufficiency check against a
\* stale quantity: the total quantity of the committed withdrawals of a
\* product never exceeds the stock that was available to it (its initial
\* quantity plus its committed receipts).
C2_RetiradasCabemNoEstoque ==
    \A p \in Produtos :
        Soma(movimentacoes, p, "saida")
            <= inicial[p] + Soma(movimentacoes, p, "entrada")

\* ---- C3 -------------------------------------------------------------------
\* C3: the quantity change of a movement and its movement record are persisted
\* as one atomic unit: in no reachable state is one of the two persisted and
\* the other not, for every caller that applies a movement.
C3_ProdutoEMovimentacaoJuntos ==
    \A r \in Reqs : persistido[r].produto = persistido[r].mov

\* ---- C4 -------------------------------------------------------------------
\* C4: the outcome of concurrent receipts and withdrawals on a product is
\* serializable: its quantidade_atual equals its initial quantity with every
\* committed receipt added and every committed withdrawal subtracted, so no
\* committed movement is lost.
C4_Serializavel ==
    \A p \in Produtos :
        produtos[p].quantidade_atual =
            inicial[p] + Soma(movimentacoes, p, "entrada")
                       - Soma(movimentacoes, p, "saida")

\* ---- C5 -------------------------------------------------------------------
\* C5: a receipt of q > 0 applied to a product holding c leaves the product's
\* persisted quantity at exactly c + q and persists exactly one new movement
\* record, with tipo = entrada, quantidade = q and that product; a valid
\* receipt is never refused.
C5_EntradaSomaExatamente ==
    \A r \in Reqs :
        (Terminou(r) /\ Valida(r) /\ req[r].tipo = "entrada"
            /\ req[r].quantidade > 0 /\ res[r].tipo # "falha")
        => /\ Sucesso(r)
           /\ QtdAgora(r) = QtdAntes(r) + req[r].quantidade
           /\ Colunas(movimentacoes) = Append(Colunas(antes[r].movimentacoes),
                                              [produto |-> req[r].produto, tipo |-> "entrada",
                                               quantidade |-> req[r].quantidade])

C5_Witness ==
    \E r \in Reqs :
        /\ Sucesso(r) /\ req[r].via = "registrar_entrada"
        /\ req[r].quantidade = 2
        /\ QtdAntes(r) = 1
        /\ QtdAgora(r) = 3

\* ---- C6 -------------------------------------------------------------------
\* C6: a withdrawal of q with 0 < q <= c from a product holding c, the
\* boundary q = c included, succeeds, leaves the persisted quantity at exactly
\* c - q and persists exactly one new movement record with tipo = saida and
\* quantidade = q.
C6_SaidaSubtraiExatamente ==
    \A r \in Reqs :
        (Terminou(r) /\ Valida(r) /\ req[r].tipo = "saida"
            /\ req[r].quantidade > 0 /\ req[r].quantidade <= QtdAntes(r)
            /\ res[r].tipo # "falha")
        => /\ Sucesso(r)
           /\ QtdAgora(r) = QtdAntes(r) - req[r].quantidade
           /\ Colunas(movimentacoes) = Append(Colunas(antes[r].movimentacoes),
                                              [produto |-> req[r].produto, tipo |-> "saida",
                                               quantidade |-> req[r].quantidade])

\* a withdrawal of everything that is there, through the view
C6_Witness ==
    \E r \in Reqs :
        /\ Sucesso(r) /\ req[r].via = "registrar_saida"
        /\ QtdAntes(r) > 0
        /\ req[r].quantidade = QtdAntes(r)
        /\ QtdAgora(r) = 0

\* ---- C7 -------------------------------------------------------------------
\* C7: a withdrawal of q > c from a product holding c fails: the view renders
\* the insufficient-stock form error, a direct call raises ValueError; the
\* persisted and the in-memory quantity stay c and no movement record is
\* created (both tables are as before).
C7_SaidaInsuficienteFalha ==
    \A r \in Reqs :
        (Terminou(r) /\ Valida(r) /\ req[r].tipo = "saida"
            /\ req[r].quantidade > 0 /\ req[r].quantidade > QtdAntes(r))
        => /\ IF req[r].via = "direta"
              THEN res[r].tipo = "ValueError"
              ELSE /\ res[r].tipo = "render"
                   /\ res[r].erros = {<<"quantidade", "insuficiente">>}
           /\ Tabelas = antes[r]
           /\ mem[r].quantidade_atual = QtdAntes(r)

C7_Witness ==
    \E r \in Reqs :
        /\ Terminou(r) /\ req[r].via = "direta" /\ req[r].tipo = "saida"
        /\ QtdAntes(r) = 1 /\ req[r].quantidade = 2
        /\ res[r].tipo = "ValueError"

\* ---- C8 -------------------------------------------------------------------
\* C8: an adjustment to q >= 0, q = 0 included, sets the persisted quantity to
\* exactly q whatever it was, never fails with insufficient stock, and
\* persists one movement record with tipo = ajuste and quantidade = q.
C8_AjusteDefineQuantidade ==
    \A r \in Reqs :
        (Terminou(r) /\ req[r].tipo = "ajuste" /\ req[r].quantidade >= 0
            /\ res[r].tipo # "falha")
        => /\ Sucesso(r)
           /\ QtdAgora(r) = req[r].quantidade
           /\ Colunas(movimentacoes) = Append(Colunas(antes[r].movimentacoes),
                                              [produto |-> req[r].produto, tipo |-> "ajuste",
                                               quantidade |-> req[r].quantidade])

\* an adjustment to 0 of a product that held something
C8_Witness ==
    \E r \in Reqs :
        /\ Sucesso(r) /\ req[r].tipo = "ajuste"
        /\ QtdAntes(r) > 0 /\ req[r].quantidade = 0 /\ QtdAgora(r) = 0

\* ---- C9 -------------------------------------------------------------------
\* C9: the insufficient-stock error (ValueError of the model method, or the
\* view's form error) occurs only for a withdrawal whose quantity exceeds the
\* quantity of the product object it is applied to, never for a receipt or an
\* adjustment; and a registrar_saida request never ends with an exception
\* that left the atomic block or the view: insufficient stock is a form error.
EstoqueInsuficienteOcorreu(r) ==
    \/ res[r].tipo = "ValueError"
    \/ <<"quantidade", "insuficiente">> \in res[r].erros

C9_InsuficienteSoEmSaida ==
    \A r \in Reqs :
        Terminou(r) =>
            /\ EstoqueInsuficienteOcorreu(r)
                   => /\ req[r].tipo = "saida"
                      /\ req[r].quantidade > mem[r].quantidade_atual
            /\ req[r].via = "registrar_saida"
                   => res[r].tipo \in {"render", "redirect", "falha"}

\* insufficient stock found by a registrar_saida request that runs
\* concurrently with another withdrawal of the same product
C9_Witness ==
    \E a \in Reqs, b \in Reqs :
        /\ a # b
        /\ Terminou(a) /\ req[a].via = "registrar_saida"
        /\ <<"quantidade", "insuficiente">> \in res[a].erros
        /\ res[a].tipo = "render"
        /\ pc[b] \in {"salvar", "mov_save", "atomic_exit", "fim"}
        /\ req[b].tipo = "saida" /\ req[b].produto = req[a].produto

\* ---- C10 ------------------------------------------------------------------
\* C10: a registrar_saida request that hits insufficient stock ends with the
\* form rendered again, carrying the submitted values and an error on
\* 'quantidade', not with a redirect or an exception, and both tables are as
\* they were before the request.
C10_InsuficienteReapresentaFormulario ==
    \A r \in Reqs :
        (Terminou(r) /\ req[r].via = "registrar_saida" /\ Valida(r)
            /\ req[r].quantidade > QtdAntes(r))
        => /\ res[r].tipo = "render"
           /\ res[r].val = req[r].val
           /\ \E e \in res[r].erros : e[1] = "quantidade"
           /\ Tabelas = antes[r]

C10_Witness ==
    \E r \in Reqs :
        /\ Terminou(r) /\ req[r].via = "registrar_saida" /\ Valida(r)
        /\ req[r].quantidade > QtdAntes(r)
        /\ res[r].tipo = "render"
        /\ res[r].val.quantidade = <<"2">>
        /\ movimentacoes # <<>>

\* ---- C14 ------------------------------------------------------------------
\* C14: a registrar_entrada or registrar_saida request whose product id is
\* missing, whose quantity is not a number or is <= 0, or whose motivo is
\* empty never reaches salvar_e_atualizar_estoque: it ends at once with the
\* form rendered, writes nothing, and both tables stay as they were.
CamposInvalidos(post) ==
    \/ post.produto = ""
    \/ ~int(post.quantidade).ok
    \/ int(post.quantidade).ok /\ int(post.quantidade).v <= 0
    \/ post.motivo = ""

C14_ValidacaoNaoChegaAoNucleo ==
    \A r \in Reqs :
        (req[r].via \in {"registrar_entrada", "registrar_saida"}
            /\ CamposInvalidos(req[r].val))
        => /\ pc[r] = "fim"
           /\ res[r].tipo = "render"
           /\ res[r].erros # {}
           /\ persistido[r] = SemEscrita
           /\ tx[r] = SemTx
           /\ Tabelas = antes[r]

\* a request with a quantity of zero and nothing else wrong, made when a
\* movement is already recorded
C14_Witness ==
    \E r \in Reqs :
        /\ Terminou(r) /\ req[r].via = "registrar_entrada"
        /\ req[r].val.produto \in DOMAIN produtos
        /\ req[r].val.motivo # ""
        /\ req[r].val.quantidade = <<"0">>
        /\ res[r].erros = {<<"quantidade", "maior_que_zero">>}
        /\ movimentacoes # <<>>

\* ---- C15 ------------------------------------------------------------------
\* C15: every persisted movement of kind entrada or saida has quantidade > 0,
\* whichever path created it.
C15_QuantidadePositiva ==
    \A i \in 1..Len(movimentacoes) :
        movimentacoes[i].tipo \in {"entrada", "saida"}
            => movimentacoes[i].quantidade > 0

\* ---- C11 ------------------------------------------------------------------
\* C11: the product's new quantity is persisted no later than its movement
\* record: in every state in which the movement a request (a view, a direct
\* call, the seed script) is recording is committed, the write of the product
\* quantity that carries its effect is committed too.
C11_QuantidadeAntesDoRegistro ==
    \A r \in Reqs : persistido[r].mov => persistido[r].produto

\* ---- C12 ------------------------------------------------------------------
\* C12: movements are immutable once created: a record that exists before and
\* after a step of any operation has the same produto, tipo and quantidade
\* after it.
Ids(ms) == {ms[i].id : i \in 1..Len(ms)}

C12_MovimentacoesImutaveis ==
    [][\A i \in 1..Len(movimentacoes), j \in 1..Len(movimentacoes') :
          movimentacoes[i].id = movimentacoes'[j].id
              => movimentacoes[i] = movimentacoes'[j]]_vars

\* ---- C13 ------------------------------------------------------------------
\* C13: the low-stock predicate of every product row is true when
\* quantidade_atual equals quantidade_minima, true when it is below it, true
\* whenever the quantity is 0, and false whenever quantidade_atual is above
\* quantidade_minima.
C13_EstoqueBaixoInclusivo ==
    \A p \in DOMAIN produtos :
        LET l == produtos[p] IN
        /\ l.quantidade_atual = l.quantidade_minima => esta_com_estoque_baixo(l)
        /\ l.quantidade_atual < l.quantidade_minima => esta_com_estoque_baixo(l)
        /\ l.quantidade_atual = 0 => esta_com_estoque_baixo(l)
        /\ l.quantidade_atual > l.quantidade_minima => ~esta_com_estoque_baixo(l)

\* one product at the boundary with a positive quantity, one with quantity 0
\* and one above its minimum, after a minimum was edited
C13_Witness ==
    /\ \E p \in DOMAIN produtos :
          /\ produtos[p].quantidade_atual = produtos[p].quantidade_minima
          /\ produtos[p].quantidade_atual > 0
          /\ esta_com_estoque_baixo(produtos[p])
    /\ \E p \in DOMAIN produtos :
          /\ produtos[p].quantidade_atual > produtos[p].quantidade_minima
          /\ ~esta_com_estoque_baixo(produtos[p])
    /\ \E r \in Reqs : Terminou(r) /\ req[r].via = "editar_produto"
                       /\ res[r].tipo = "redirect"

\* ---- C16 ------------------------------------------------------------------
\* C16: no two products of one institution share a codigo, and a product may
\* be registered with a codigo that only products of other institutions hold:
\* a well-formed cadastrar_produto request whose codigo is unused in its
\* institution succeeds.
CadastroBemFormado(r) ==
    /\ req[r].via = "cadastrar_produto"
    /\ ValidacaoProduto(req[r].val) = {}
    /\ req[r].val.instituicao \in instituicoes
    /\ int(req[r].val.quantidade_minima).v >= 0

C16_CodigoUnicoPorInstituicao ==
    /\ \A p \in DOMAIN produtos, o \in DOMAIN produtos :
          (p # o /\ produtos[p].instituicao = produtos[o].instituicao)
              => produtos[p].codigo # produtos[o].codigo
    /\ \A r \in Reqs :
          (/\ Terminou(r)
           /\ CadastroBemFormado(r)
           /\ unique_together(antes[r].produtos, req[r].val.codigo,
                              req[r].val.instituicao))
          => res[r].tipo = "redirect"

\* ---- C17 ------------------------------------------------------------------
\* every movement row names a product row that exists
ReferenciasValidas ==
    \A i \in 1..Len(movimentacoes) : movimentacoes[i].produto \in DOMAIN produtos

\* one step: movements come and go without products coming or going
VidaIndependente ==
    LET criadas   == Ids(movimentacoes') \ Ids(movimentacoes)
        removidas == Ids(movimentacoes) \ Ids(movimentacoes')
        somem     == DOMAIN produtos \ DOMAIN produtos' IN
    /\ criadas # {} => DOMAIN produtos' = DOMAIN produtos
    /\ removidas # {} =>
          /\ DOMAIN produtos' \subseteq DOMAIN produtos
          /\ somem # {} =>
                \A i \in 1..Len(movimentacoes) :
                    movimentacoes[i].id \in removidas
                        => movimentacoes[i].produto \in somem

\* C17: every movement references a product that exists, also after a product
\* or an institution is deleted; a step that creates movements leaves the set
\* of products as it was, and a step that removes movements adds no product
\* and removes one only when the removed movements are those of the removed
\* products (the deletion of the product is what removed them).
C17_ReferenciaUmProdutoExistente ==
    [](ReferenciasValidas) /\ [][VidaIndependente]_vars

\* ---- C18 ------------------------------------------------------------------
\* C18: deletar_produto is a soft delete: a POST for an existing product ends
\* with ativo False and every other column of the row, every other row and
\* every movement as they were; a GET changes neither table.
C18_DeletarProdutoSoDesativa ==
    \A r \in Reqs :
        req[r].via = "deletar_produto" =>
            LET p == req[r].produto IN
            /\ movimentacoes = antes[r].movimentacoes
            /\ DOMAIN produtos = DOMAIN antes[r].produtos
            /\ (req[r].metodo = "GET" \/ ~Terminou(r) \/ p \notin DOMAIN produtos)
                  => produtos = antes[r].produtos
            /\ (req[r].metodo = "GET" /\ p \in DOMAIN produtos)
                  => Terminou(r) /\ res[r].tipo = "render"
            /\ (req[r].metodo = "POST" /\ Terminou(r) /\ p \in DOMAIN produtos)
                  => /\ res[r].tipo = "redirect"
                     /\ ~produtos[p].ativo
                     /\ produtos[p].quantidade_atual = antes[r].produtos[p].quantidade_atual
                     /\ produtos[p].quantidade_minima = antes[r].produtos[p].quantidade_minima
                     /\ produtos[p].codigo = antes[r].produtos[p].codigo
                     /\ produtos[p].instituicao = antes[r].produtos[p].instituicao
                     /\ \A o \in DOMAIN produtos \ {p} : produtos[o] = antes[r].produtos[o]

\* a POST that removed an active product holding stock and having a movement
C18_Witness ==
    \E r \in Reqs :
        /\ Terminou(r) /\ req[r].via = "deletar_produto" /\ req[r].metodo = "POST"
        /\ req[r].produto \in DOMAIN produtos
        /\ antes[r].produtos[req[r].produto].ativo
        /\ antes[r].produtos[req[r].produto].quantidade_atual > 0
        /\ \E i \in 1..Len(movimentacoes) : movimentacoes[i].produto = req[r].produto

\* ---- C19 ------------------------------------------------------------------
\* C19: no request made without an authenticated session changes the table of
\* products or the table of movements.
Anonimo(r) ==
    \/ req[r].via = "login_required"
    \/ req[r].via = "excluir_instituicao" /\ ~req[r].autenticado

C19_SemSessaoNadaMuda ==
    \A r \in Reqs : Anonimo(r) => Tabelas = antes[r]

\* ---- C20 ------------------------------------------------------------------
\* C20: a cadastrar_produto request with a codigo that a product of the chosen
\* institution already has creates no product and ends with the form rendered
\* again carrying the "already exists" error.
C20_CodigoDuplicadoReapresentaFormulario ==
    \A r \in Reqs :
        (/\ Terminou(r)
         /\ CadastroBemFormado(r)
         /\ ~unique_together(antes[r].produtos, req[r].val.codigo,
                             req[r].val.instituicao))
        => /\ res[r].tipo = "render"
           /\ <<"geral", "ja_existe">> \in res[r].erros
           /\ Tabelas = antes[r]

\* ---- C21 ------------------------------------------------------------------
\* the tables hold what a complete run of the seed script leaves: its four
\* products and the movement with id 1
Populado(t) ==
    /\ \A k \in 1..Len(SeedProdutos) :
          \E p \in DOMAIN t.produtos :
              /\ t.produtos[p].codigo = SeedProdutos[k].codigo
              /\ t.produtos[p].instituicao = SeedProdutos[k].instituicao
    /\ \E i \in 1..Len(t.movimentacoes) : t.movimentacoes[i].id = 1

\* C21: the seed script is idempotent: a run of criar_exemplos that starts on
\* a database the script has already populated ends with no product and no
\* movement added and with every product's quantidade_atual as it was.
C21_SeedIdempotente ==
    \A r \in Reqs :
        (req[r].via = "criar_exemplos" /\ Populado(antes[r]))
        => /\ Tabelas = antes[r]
           /\ instituicoes = Instituicoes

C23_PreChequeEquivalente ==
    /\ \A c \in 0..(MaxInicial + MaxOps * MaxQtd), q \in 1..MaxQtd :
          EstoqueInsuficiente(c, q) <=> ~AtualizaEstoque("saida", c, q).ok
    /\ \A r \in Reqs :
          req[r].via = "registrar_saida" => res[r].tipo # "ValueError"

\* a registrar_saida request that took everything the product held has passed
\* both checks, while another request is in flight
C23_Witness ==
    \E r \in Reqs, o \in Reqs :
        /\ req[r].via = "registrar_saida" /\ pc[r] = "mov_save"
        /\ req[r].quantidade > 0
        /\ mem[r].quantidade_atual = 0
        /\ o # r /\ pc[o] \notin {"idle", "fim"}

\* ---- C24 ------------------------------------------------------------------
RECURSIVE Replay(_, _, _)
\* the quantity obtained from q0 by applying the movements of product p in
\* ms in creation order: entrada adds, saida subtracts, ajuste sets
Replay(q0, ms, p) ==
    IF ms = <<>> THEN q0
    ELSE LET m == Head(ms) IN
         Replay(IF m.produto # p THEN q0
                ELSE IF m.tipo = "entrada" THEN q0 + m.quantidade
                ELSE IF m.tipo = "saida" THEN q0 - m.quantidade
                ELSE m.quantidade,
                Tail(ms), p)

\* C24: with movement applications executed one at a time, whenever no
\* application is under way each product's quantidade_atual equals the replay
\* of its persisted movement records from its initial quantity, and an
\* application adds one movement record exactly when it succeeds.
C24_LivroConsistente ==
    /\ (\A r \in Reqs : pc[r] \in {"idle", "fim"})
          => \A p \in Produtos :
                produtos[p].quantidade_atual = Replay(inicial[p], movimentacoes, p)
    /\ \A r \in Reqs :
          Terminou(r) =>
              Len(movimentacoes) =
                  Len(antes[r].movimentacoes) + (IF Sucesso(r) THEN 1 ELSE 0)

\* ---- C25 ------------------------------------------------------------------
\* one step that commits a movement: one row is appended for some product P,
\* the rows that existed stay, every other product stays, and of P's row only
\* quantidade_atual may differ
SoQuantidadeMuda ==
    Len(movimentacoes') > Len(movimentacoes) =>
        LET P == movimentacoes'[Len(movimentacoes')].produto IN
        /\ Len(movimentacoes') = Len(movimentacoes) + 1
        /\ SubSeq(movimentacoes', 1, Len(movimentacoes)) = movimentacoes
        /\ DOMAIN produtos' = DOMAIN produtos
        /\ \A o \in DOMAIN produtos \ {P} : produtos'[o] = produtos[o]
        /\ produtos'[P] =
              [produtos[P] EXCEPT !.quantidade_atual = produtos'[P].quantidade_atual]

\* C25: applying a movement to product P through the views changes only
\* P.quantidade_atual and adds one movement row; every other product, P's
\* quantidade_minima and ativo and every existing movement stay as they are,
\* also when an editar_produto or deletar_produto request on P runs
\* concurrently.
C25_MovimentoSoMudaQuantidade == [][SoQuantidadeMuda]_vars

====
